---- MODULE Spec2Model ----
(***************************************************************************)
(* The label-bias sweep of analyzer.py (analyze_label_bias, the trial      *)
(* orchestrator __label_bias_trial and the point evaluator                 *)
(* __label_bias_fetch_train_constrain) and the DataReader of               *)
(* data_reader.py.                                                         *)
(*                                                                         *)
(* Flip rates are rationals written as integers in units of 1/Unit, so     *)
(* that a step which does not divide the range and a rate above 1.0 can    *)
(* both be written; np.arange is computed in exact arithmetic.             *)
(* The libraries (sklearn, fairlearn, pandas metrics) are black boxes: an  *)
(* attempt of the point evaluator either completes, or raises before the   *)
(* result frame is created (line 94), or raises after it was created and   *)
(* before its row is stored (line 95).                                     *)
(***************************************************************************)
EXTENDS Integers, Sequences, FiniteSets, TLC

VARIABLES
    dataReader,         \* the interface shape of the dataReader argument
    range_interval,     \* analyze_label_bias arguments
    range_max,
    range_min,
    cpu_count,
    trial_count,
    pc,                 \* position of the coordinator process
    trial_num,          \* index of the trial the generator of line 29 is at
    error,              \* the exception that ended the run, "none" otherwise
    initial_estimator,  \* trial whose data the reference model was fitted on, 0 = none
    pool,               \* number of worker pools opened so far
    variable_args,      \* the parameter points of the current trial
    tasks,              \* per point: "pending", "running" or "done"
    return_values,      \* per point: what its evaluator returned or raised
    trial_result,       \* the frame of lines 62-63
    failures_sum,       \* the number printed at line 64, -1 before
    frames,             \* trial results yielded so far to pd.concat (line 29)
    results,            \* the frame of line 29
    csv,                \* the file written at line 32
    rdArgs,             \* arguments of a DataReader construction
    rd,                 \* the outcome of that construction
    evArgs,             \* arguments of one call of the point evaluator
    evRet,              \* what that call returned or raised
    baseline_fits,      \* number of reference model fits so far (line 45)
    tables,             \* trial whose fetch produced the training/test tables, 0 = none
    encoder,            \* what the coordinator's DataReader encoder was last fitted on
    workerEncoder,      \* per point: the same for the copy of its worker
    lbArgs,             \* the training label column and a flip rate
    lbOut               \* what training_data() and training_data_label_bias() returned

vars == <<dataReader, range_interval, range_max, range_min, cpu_count, trial_count,
          pc, trial_num, error, initial_estimator, pool, variable_args, tasks,
          return_values, trial_result, failures_sum, frames, results, csv,
          rdArgs, rd, evArgs, evRet, baseline_fits, tables, encoder, workerEncoder,
          lbArgs, lbOut>>

analyzerVars == <<dataReader, range_interval, range_max, range_min, cpu_count,
                  trial_count, pc, trial_num, error, initial_estimator, pool,
                  variable_args, tasks, return_values, trial_result, failures_sum,
                  frames, results, csv, baseline_fits, tables, encoder,
                  workerEncoder>>

readerVars == <<rdArgs, rd>>

evalVars == <<evArgs, evRet>>

labelVars == <<lbArgs, lbOut>>

-----------------------------------------------------------------------------
(* Bounds of the model *)

MaxTrials == 2
MaxCpu == 2
MaxRate == 2
MaxNames == 2
MaxRows == 3

(* Program constants *)

\* flip rate 1.0 in model units (the limit 1 of data_reader.py line 198)
Unit == 2
\* range(5), analyzer.py line 77
MaxAttempts == 5
\* the 4 of "failures < 4", analyzer.py line 108
MarkerLimit == 4
\* the confidence threshold paired with every flip rate, analyzer.py line 50
ConfidenceThreshold == 1

-----------------------------------------------------------------------------
(* Parameter grid: np.arange(range_min, range_max + range_interval, range_interval) *)

\* numpy: len = ceil((stop - start) / step), 0 when that is not positive
ArangeLen(start, stop, step) ==
    IF stop <= start THEN 0 ELSE ((stop - start) + step - 1) \div step

\* numpy: element i is start + i*step
Arange(start, stop, step) ==
    [i \in 1..ArangeLen(start, stop, step) |-> start + (i - 1) * step]

\* analyzer.py line 50
Grid(rmin, rmax, step) ==
    LET rates == Arange(rmin, rmax + step, step)
    IN  [i \in 1..Len(rates) |-> <<rates[i], ConfidenceThreshold>>]

-----------------------------------------------------------------------------
(* pandas frames are sequences of rows *)

RECURSIVE Concat(_)
\* pd.concat(frames, ignore_index=True): the rows of the frames, in order
Concat(fs) == IF fs = <<>> THEN <<>> ELSE Head(fs) \o Concat(Tail(fs))

\* DataFrame.insert(0, 'Trial', n): every row gets the column
InsertTrial(df, n) ==
    [i \in 1..Len(df) |-> [Trial |-> n,
                           FlipRate |-> df[i].FlipRate,
                           ConfidenceThreshold |-> df[i].ConfidenceThreshold,
                           Metrics |-> df[i].Metrics]]

RECURSIVE SumSeqCountsFailed(_)
\* SumSeq counting the entries above 0 in place of adding them
SumSeqCountsFailed(s) ==
    IF s = <<>> THEN 0
    ELSE (IF Head(s) > 0 THEN 1 ELSE 0) + SumSeqCountsFailed(Tail(s))

RECURSIVE SumSeq(_)
\* sum(failures), line 64
SumSeq(s) == IF s = <<>> THEN 0 ELSE Head(s) + SumSeq(Tail(s))

-----------------------------------------------------------------------------
(* The point evaluator, analyzer.py lines 67-109 *)

\* what the black boxes do in one attempt
Outcomes == {"ok", "early", "late"}

\* What the black boxes do in the attempts of one evaluation. The attempts after
\* the first success are never made, so they are written "ok"; a second late
\* failure leaves the same empty frame as one alone, so one is enough.
OutcomePlans ==
    {f \in [0..(MaxAttempts - 1) -> Outcomes] :
        /\ \A a, b \in 0..(MaxAttempts - 1) : (a < b /\ f[a] = "ok") => f[b] = "ok"
        /\ Cardinality({a \in 0..(MaxAttempts - 1) : f[a] = "late"}) <= 1}

\* the local variable result: unbound until line 94 runs
Unbound == [bound |-> FALSE, df |-> <<>>]

\* FetchTrain without the flip_rate == 0 shortcut of lines 79-81
FetchTrainAlwaysInjects(flip_rate, dr) ==
    IF dr.biasArity # 3 \/ flip_rate > Unit \/ flip_rate < 0 \/ dr.tupleLen # 2
    THEN [raised |-> TRUE, table |-> "none", estimator |-> "none",
          biasCalls |-> 1, fits |-> 0]
    ELSE [raised |-> FALSE, table |-> "biased", estimator |-> "new",
          biasCalls |-> 1, fits |-> 1]

\* lines 79-85: the training table and classifier of an attempt
FetchTrain(flip_rate, dr) ==
    IF flip_rate = 0
    THEN [raised |-> FALSE, table |-> "initial", estimator |-> "initial",
          biasCalls |-> 0, fits |-> 0]
    ELSE IF dr.biasArity # 3
    THEN \* TypeError: the method does not take three arguments
         [raised |-> TRUE, table |-> "none", estimator |-> "none",
          biasCalls |-> 1, fits |-> 0]
    ELSE IF flip_rate > Unit \/ flip_rate < 0
    THEN \* ValueError of data_reader.py line 199
         [raised |-> TRUE, table |-> "none", estimator |-> "none",
          biasCalls |-> 1, fits |-> 0]
    ELSE IF dr.tupleLen # 2
    THEN \* ValueError: too many values to unpack
         [raised |-> TRUE, table |-> "none", estimator |-> "none",
          biasCalls |-> 1, fits |-> 0]
    ELSE [raised |-> FALSE, table |-> "biased", estimator |-> "new",
          biasCalls |-> 1, fits |-> 1]

\* Attempt counting itself among the failures
AttemptCountsItself(st, k, flip_rate, confidence_threshold, dr, outcome) ==
    LET got == FetchTrain(flip_rate, dr)
        base == [st EXCEPT !.failures = k + 1,
                           !.attempts = k + 1,
                           !.biasCalls = @ + got.biasCalls,
                           !.fits = @ + got.fits,
                           !.table = got.table,
                           !.estimator = got.estimator]
    IN  IF got.raised \/ outcome = "early"
        THEN base
        ELSE IF outcome = "late"
        THEN [base EXCEPT !.result = [bound |-> TRUE, df |-> <<>>]]
        ELSE [base EXCEPT !.result =
                              [bound |-> TRUE,
                               df |-> <<[FlipRate |-> flip_rate,
                                         ConfidenceThreshold |-> confidence_threshold,
                                         Metrics |-> "m"]>>],
                          !.rowBy = k + 1,
                          !.succeeded = TRUE]

\* lines 78-107: attempt number k (0-based) of the loop, from loop state st
Attempt(st, k, flip_rate, confidence_threshold, dr, outcome) ==
    LET got == FetchTrain(flip_rate, dr)
        base == [st EXCEPT !.failures = k,
                           !.attempts = k + 1,
                           !.biasCalls = @ + got.biasCalls,
                           !.fits = @ + got.fits,
                           !.table = got.table,
                           !.estimator = got.estimator]
    IN  IF got.raised \/ outcome = "early"
        THEN base
        ELSE IF outcome = "late"
        THEN \* line 94 ran, line 95 raised: result is an empty frame
             [base EXCEPT !.result = [bound |-> TRUE, df |-> <<>>]]
        ELSE [base EXCEPT !.result =
                              [bound |-> TRUE,
                               df |-> <<[FlipRate |-> flip_rate,
                                         ConfidenceThreshold |-> confidence_threshold,
                                         Metrics |-> "m"]>>],
                          !.rowBy = k + 1,
                          !.succeeded = TRUE]

RECURSIVE RetryLoopNoBreak(_, _, _, _, _, _)
\* RetryLoop without the break of line 107
RetryLoopNoBreak(k, st, flip_rate, confidence_threshold, dr, outcomes) ==
    IF k >= MaxAttempts
    THEN st
    ELSE RetryLoopNoBreak(k + 1,
                          Attempt(st, k, flip_rate, confidence_threshold, dr, outcomes[k]),
                          flip_rate, confidence_threshold, dr, outcomes)

RECURSIVE RetryLoop(_, _, _, _, _, _)
\* line 77 with the continue/break of lines 105-107
RetryLoop(k, st, flip_rate, confidence_threshold, dr, outcomes) ==
    IF k >= MaxAttempts
    THEN st
    ELSE LET next == Attempt(st, k, flip_rate, confidence_threshold, dr, outcomes[k])
         IN  IF next.succeeded
             THEN next
             ELSE RetryLoop(k + 1, next, flip_rate, confidence_threshold, dr, outcomes)

LoopStart ==
    [result |-> Unbound, failures |-> 0, attempts |-> 0, biasCalls |-> 0, fits |-> 0,
     table |-> "none", estimator |-> "none", rowBy |-> 0, succeeded |-> FALSE]

\* line 108
Marker(failures) == IF failures < MarkerLimit THEN "#" ELSE "X"

\* Evaluate returning the number of attempts made in place of the loop variable
EvaluateCountsAttempts(flip_rate, confidence_threshold, dr, outcomes) ==
    LET st == RetryLoop(0, LoopStart, flip_rate, confidence_threshold, dr, outcomes)
    IN  [status |-> IF st.result.bound THEN "returned" ELSE "raised",
         df |-> st.result.df,
         failures |-> st.attempts,
         printed |-> <<Marker(st.attempts)>>,
         attempts |-> st.attempts,
         biasCalls |-> st.biasCalls,
         fits |-> st.fits,
         table |-> st.table,
         estimator |-> st.estimator,
         rowBy |-> st.rowBy,
         succeeded |-> st.succeeded]

\* lines 77-109: the value returned, or the UnboundLocalError of line 109
Evaluate(flip_rate, confidence_threshold, dr, outcomes) ==
    LET st == RetryLoop(0, LoopStart, flip_rate, confidence_threshold, dr, outcomes)
    IN  [status |-> IF st.result.bound THEN "returned" ELSE "raised",
         df |-> st.result.df,
         failures |-> st.failures,
         printed |-> <<Marker(st.failures)>>,
         attempts |-> st.attempts,
         biasCalls |-> st.biasCalls,
         fits |-> st.fits,
         table |-> st.table,
         estimator |-> st.estimator,
         rowBy |-> st.rowBy,
         succeeded |-> st.succeeded]

NoReturn ==
    [status |-> "none", df |-> <<>>, failures |-> 0, printed |-> <<>>, attempts |-> 0,
     biasCalls |-> 0, fits |-> 0, table |-> "none", estimator |-> "none",
     rowBy |-> 0, succeeded |-> FALSE]

-----------------------------------------------------------------------------
(* DataReader.__init__, data_reader.py lines 46-92 *)

ColumnNames == {"Age", "Sex", "Target"}

RECURSIVE FirstMissing(_, _)
\* the loops of lines 84-86 and 89-91: is some name of the list not a feature
FirstMissing(names, features) ==
    IF names = <<>> THEN FALSE
    ELSE IF Head(names) \notin features THEN TRUE
    ELSE FirstMissing(Tail(names), features)

\* DataReaderInit without the check of the sensitive attribute names
DataReaderInitSkipsSensitive(args) ==
    IF ~args.training_is_file
    THEN [status |-> "ValueError", message |-> "training path"]
    ELSE IF ~args.test_is_file
    THEN [status |-> "ValueError", message |-> "test path"]
    ELSE IF FirstMissing(args.label_column_names, args.types)
    THEN [status |-> "ValueError", message |-> "label columns"]
    ELSE [status |-> "constructed", message |-> ""]

DataReaderInit(args) ==
    LET features == args.types
    IN  IF ~args.training_is_file
        THEN [status |-> "ValueError", message |-> "training path"]
        ELSE IF ~args.test_is_file
        THEN [status |-> "ValueError", message |-> "test path"]
        ELSE IF FirstMissing(args.label_column_names, features)
        THEN [status |-> "ValueError", message |-> "label columns"]
        ELSE IF FirstMissing(args.sensitive_attribute_column_names, features)
        THEN [status |-> "ValueError", message |-> "sensitive columns"]
        ELSE [status |-> "constructed", message |-> ""]

NameLists == UNION {[1..n -> ColumnNames] : n \in 0..MaxNames}

ReaderArgs ==
    [types : SUBSET ColumnNames,
     training_is_file : BOOLEAN,
     test_is_file : BOOLEAN,
     label_column_names : NameLists,
     sensitive_attribute_column_names : NameLists]

\* the Adult object of data_reader.py lines 217-237, with its files present
AdultArgs ==
    [types |-> ColumnNames, training_is_file |-> TRUE, test_is_file |-> TRUE,
     label_column_names |-> <<"Target">>,
     sensitive_attribute_column_names |-> <<"Sex">>]

-----------------------------------------------------------------------------
(* DataReader reading and encoding, data_reader.py lines 94-215 *)

\* LabelEncoder.fit_transform on a column: every value becomes its rank among
\* the distinct values of the column (lines 141-143)
Encode(col) ==
    [i \in 1..Len(col) |->
        Cardinality({col[j] : j \in {j \in 1..Len(col) : col[j] < col[i]}})]

\* lines 146-166: every read refits the one encoder of the object, so it is left
\* fitted on the last column of the file read
EncoderAfterRead(file) == file

NotCalled == [status |-> "none", labels |-> <<>>]

\* training_data(), lines 168-177: the encoded label column
TrainingData(labels) == [status |-> "returned", labels |-> Encode(labels)]

\* training_data_label_bias(flip_rate), lines 179-204
TrainingDataLabelBias(labels, flip_rate) ==
    IF flip_rate > Unit \/ flip_rate < 0
    THEN [status |-> "ValueError", labels |-> <<>>]
    ELSE \* line 202 is a comment: no label is changed
         [status |-> "returned", labels |-> Encode(labels)]

\* does a worker's call of training_data_label_bias reach the read of line 200
BiasCallReads(flip_rate, dr) ==
    /\ flip_rate # 0
    /\ dr.biasArity = 3
    /\ ~(flip_rate > Unit \/ flip_rate < 0)

\* the encoder of a worker's copy of the DataReader after it evaluated a point
WorkerEncoderAfter(enc, flip_rate, dr) ==
    IF BiasCallReads(flip_rate, dr) THEN EncoderAfterRead("training") ELSE enc

\* workers that share the coordinator's DataReader object (threads)
SharedEncoderAfter(enc, workerEnc) == workerEnc

\* the pool's workers are processes and work on pickled copies of the arguments
\* of starmap: nothing a worker does to its copy reaches the coordinator
CoordinatorEncoderAfter(enc, workerEnc) == enc

-----------------------------------------------------------------------------
(* Initial states *)

\* what analyzer.py can be handed as dataReader: the length of the tuples
\* training_data()/test_data() return, the number of arguments
\* training_data_label_bias takes, and whether the object has the
\* training_sensitive_attributes()/test_sensitive_attributes() methods
ReaderShapes ==
    [tupleLen : {2, 3}, biasArity : {1, 3}, hasAccessors : BOOLEAN]

AnalyzerIdle ==
    /\ pc = "fetch"
    /\ trial_num = 1
    /\ error = "none"
    /\ initial_estimator = 0
    /\ pool = 0
    /\ variable_args = <<>>
    /\ tasks = <<>>
    /\ return_values = <<>>
    /\ trial_result = <<>>
    /\ failures_sum = -1
    /\ frames = <<>>
    /\ results = <<>>
    /\ csv = [written |-> FALSE, rows |-> <<>>]
    /\ baseline_fits = 0
    /\ tables = 0
    /\ encoder = "unfitted"
    /\ workerEncoder = <<>>

\* no separate evaluator call is under way
EvalIdle ==
    /\ evArgs = [flip_rate |-> 0, confidence_threshold |-> ConfidenceThreshold,
                 dataReader |-> [tupleLen |-> 2, biasArity |-> 3, hasAccessors |-> TRUE],
                 outcomes |-> [a \in 0..(MaxAttempts - 1) |-> "ok"]]
    /\ evRet = NoReturn

\* no separate DataReader call is under way
LabelIdle ==
    /\ lbArgs = [labels |-> <<>>, flip_rate |-> 0]
    /\ lbOut = [training |-> NotCalled, biased |-> NotCalled]

Init ==
    /\ dataReader \in ReaderShapes
    /\ range_min \in 0..MaxRate
    /\ range_max \in range_min..MaxRate
    /\ range_interval \in 1..MaxRate
    /\ cpu_count \in 1..MaxCpu
    /\ trial_count \in 1..MaxTrials
    /\ AnalyzerIdle
    /\ rdArgs = AdultArgs
    /\ rd = DataReaderInit(AdultArgs)
    /\ EvalIdle
    /\ LabelIdle

-----------------------------------------------------------------------------
(* The coordinator: __label_bias_trial, analyzer.py lines 34-65 *)

Fail(name) ==
    /\ pc' = "failed"
    /\ error' = name

\* lines 40-41: both calls unpack the returned tuple into two names
FetchData ==
    /\ pc = "fetch"
    /\ IF dataReader.tupleLen # 2
       THEN \* training_data() has run when unpacking its tuple raises
            /\ Fail("ValueError: too many values to unpack")
            /\ encoder' = EncoderAfterRead("training")
            /\ UNCHANGED tables
       ELSE /\ pc' = "fit"
            /\ encoder' = EncoderAfterRead("test")
            /\ tables' = trial_num
            /\ UNCHANGED error
    /\ UNCHANGED <<baseline_fits, workerEncoder>>
    /\ UNCHANGED <<dataReader, range_interval, range_max, range_min, cpu_count,
                   trial_count, trial_num, initial_estimator, pool, variable_args,
                   tasks, return_values, trial_result, failures_sum, frames, results,
                   csv, readerVars, evalVars, labelVars>>

\* FitInitial fitting a model in the first trial only and reusing it afterwards
FitInitialReusesModel ==
    /\ pc = "fit"
    /\ IF baseline_fits = 0
       THEN initial_estimator' = trial_num /\ baseline_fits' = baseline_fits + 1
       ELSE initial_estimator' = 1 /\ baseline_fits' = baseline_fits
    /\ pc' = "pool"
    /\ UNCHANGED <<tables, encoder, workerEncoder>>
    /\ UNCHANGED <<dataReader, range_interval, range_max, range_min, cpu_count,
                   trial_count, trial_num, error, pool, variable_args, tasks,
                   return_values, trial_result, failures_sum, frames, results, csv,
                   readerVars, evalVars, labelVars>>

\* lines 43-47
FitInitial ==
    /\ pc = "fit"
    /\ initial_estimator' = trial_num
    /\ baseline_fits' = baseline_fits + 1
    /\ pc' = "pool"
    /\ UNCHANGED <<tables, encoder, workerEncoder>>
    /\ UNCHANGED <<dataReader, range_interval, range_max, range_min, cpu_count,
                   trial_count, trial_num, error, pool, variable_args, tasks,
                   return_values, trial_result, failures_sum, frames, results, csv,
                   readerVars, evalVars, labelVars>>

\* lines 49-50
OpenPool ==
    /\ pc = "pool"
    /\ pool' = pool + 1
    /\ variable_args' = Grid(range_min, range_max, range_interval)
    /\ pc' = "dispatch"
    /\ UNCHANGED <<baseline_fits, tables, encoder, workerEncoder>>
    /\ UNCHANGED <<dataReader, range_interval, range_max, range_min, cpu_count,
                   trial_count, trial_num, error, initial_estimator, tasks,
                   return_values, trial_result, failures_sum, frames, results, csv,
                   readerVars, evalVars, labelVars>>

\* lines 51-60: the arguments of partial are evaluated, then starmap queues every point
Dispatch ==
    /\ pc = "dispatch"
    /\ IF ~dataReader.hasAccessors
       THEN /\ Fail("AttributeError")
            /\ UNCHANGED <<tasks, return_values, workerEncoder>>
       ELSE /\ pc' = "wait"
            /\ tasks' = [i \in 1..Len(variable_args) |-> "pending"]
            /\ return_values' = [i \in 1..Len(variable_args) |-> NoReturn]
            /\ workerEncoder' = [i \in 1..Len(variable_args) |-> encoder]
            /\ UNCHANGED error
    /\ UNCHANGED <<baseline_fits, tables, encoder>>
    /\ UNCHANGED <<dataReader, range_interval, range_max, range_min, cpu_count,
                   trial_count, trial_num, initial_estimator, pool, variable_args,
                   trial_result, failures_sum, frames, results, csv, readerVars, evalVars, labelVars>>

Running == {i \in 1..Len(tasks) : tasks[i] = "running"}

\* a free worker of the pool takes the next point of the task queue
StartPoint(i) ==
    /\ pc = "wait"
    /\ i \in 1..Len(tasks)
    /\ tasks[i] = "pending"
    /\ \A j \in 1..(i - 1) : tasks[j] # "pending"
    /\ Cardinality(Running) < cpu_count
    /\ tasks' = [tasks EXCEPT ![i] = "running"]
    /\ UNCHANGED <<baseline_fits, tables, encoder, workerEncoder>>
    /\ UNCHANGED <<dataReader, range_interval, range_max, range_min, cpu_count,
                   trial_count, pc, trial_num, error, initial_estimator, pool,
                   variable_args, return_values, trial_result, failures_sum, frames,
                   results, csv, readerVars, evalVars, labelVars>>

\* a worker runs __label_bias_fetch_train_constrain on its point to the end
FinishPoint(i) ==
    /\ pc = "wait"
    /\ i \in 1..Len(tasks)
    /\ tasks[i] = "running"
    /\ \E outcomes \in OutcomePlans :
          return_values' =
              [return_values EXCEPT
                  ![i] = Evaluate(variable_args[i][1], variable_args[i][2],
                                  dataReader, outcomes)]
    /\ tasks' = [tasks EXCEPT ![i] = "done"]
    /\ workerEncoder' =
          [workerEncoder EXCEPT
              ![i] = WorkerEncoderAfter(@, variable_args[i][1], dataReader)]
    /\ encoder' = CoordinatorEncoderAfter(encoder, workerEncoder'[i])
    /\ UNCHANGED <<baseline_fits, tables>>
    /\ UNCHANGED <<dataReader, range_interval, range_max, range_min, cpu_count,
                   trial_count, pc, trial_num, error, initial_estimator, pool,
                   variable_args, trial_result, failures_sum, frames, results, csv,
                   readerVars, evalVars, labelVars>>

\* collecting as soon as one point is done
AnyDone == \E i \in 1..Len(tasks) : tasks[i] = "done"

AllDone == \A i \in 1..Len(tasks) : tasks[i] = "done"

\* starmap returns once every point is done, and re-raises a worker's exception;
\* lines 61-64 otherwise
Collect ==
    /\ pc = "wait"
    /\ AllDone
    /\ IF \E i \in 1..Len(return_values) : return_values[i].status = "raised"
       THEN /\ Fail("UnboundLocalError")
            /\ UNCHANGED <<trial_result, failures_sum>>
       ELSE /\ trial_result' =
                   InsertTrial(Concat([i \in 1..Len(return_values) |->
                                          return_values[i].df]), trial_num)
            /\ failures_sum' =
                   SumSeq([i \in 1..Len(return_values) |-> return_values[i].failures])
            /\ pc' = "collected"
            /\ UNCHANGED error
    /\ UNCHANGED <<baseline_fits, tables, encoder, workerEncoder>>
    /\ UNCHANGED <<dataReader, range_interval, range_max, range_min, cpu_count,
                   trial_count, trial_num, initial_estimator, pool, variable_args,
                   tasks, return_values, frames, results, csv, readerVars, evalVars, labelVars>>

\* ReturnTrial putting the newest trial result first
ReturnTrialPrepends ==
    /\ pc = "collected"
    /\ frames' = <<trial_result>> \o frames
    /\ initial_estimator' = 0
    /\ variable_args' = <<>>
    /\ tasks' = <<>>
    /\ return_values' = <<>>
    /\ trial_result' = <<>>
    /\ failures_sum' = -1
    /\ tables' = 0
    /\ workerEncoder' = <<>>
    /\ UNCHANGED <<baseline_fits, encoder>>
    /\ IF trial_num < trial_count
       THEN trial_num' = trial_num + 1 /\ pc' = "fetch"
       ELSE trial_num' = trial_num /\ pc' = "concat"
    /\ UNCHANGED <<dataReader, range_interval, range_max, range_min, cpu_count,
                   trial_count, error, pool, results, csv, readerVars, evalVars,
                   labelVars>>

\* line 65, and the generator of line 29 moving to the next trial index
ReturnTrial ==
    /\ pc = "collected"
    /\ frames' = Append(frames, trial_result)
    /\ initial_estimator' = 0
    /\ variable_args' = <<>>
    /\ tasks' = <<>>
    /\ return_values' = <<>>
    /\ trial_result' = <<>>
    /\ failures_sum' = -1
    /\ tables' = 0
    /\ workerEncoder' = <<>>
    /\ UNCHANGED <<baseline_fits, encoder>>
    /\ IF trial_num < trial_count
       THEN trial_num' = trial_num + 1 /\ pc' = "fetch"
       ELSE trial_num' = trial_num /\ pc' = "concat"
    /\ UNCHANGED <<dataReader, range_interval, range_max, range_min, cpu_count,
                   trial_count, error, pool, results, csv, readerVars, evalVars, labelVars>>

\* line 29: pd.concat of the yielded trial results
ConcatResults ==
    /\ pc = "concat"
    /\ results' = Concat(frames)
    /\ pc' = "write"
    /\ UNCHANGED <<baseline_fits, tables, encoder, workerEncoder>>
    /\ UNCHANGED <<dataReader, range_interval, range_max, range_min, cpu_count,
                   trial_count, trial_num, error, initial_estimator, pool,
                   variable_args, tasks, return_values, trial_result, failures_sum,
                   frames, csv, readerVars, evalVars, labelVars>>

\* lines 31-32
WriteResults ==
    /\ pc = "write"
    /\ csv' = [written |-> TRUE, rows |-> results]
    /\ pc' = "done"
    /\ UNCHANGED <<baseline_fits, tables, encoder, workerEncoder>>
    /\ UNCHANGED <<dataReader, range_interval, range_max, range_min, cpu_count,
                   trial_count, trial_num, error, initial_estimator, pool,
                   variable_args, tasks, return_values, trial_result, failures_sum,
                   frames, results, readerVars, evalVars, labelVars>>

Next ==
    \/ FetchData
    \/ FitInitial
    \/ OpenPool
    \/ Dispatch
    \/ \E i \in 1..(MaxRate + 2) : StartPoint(i)
    \/ \E i \in 1..(MaxRate + 2) : FinishPoint(i)
    \/ Collect
    \/ ReturnTrial
    \/ ConcatResults
    \/ WriteResults

Spec == Init /\ [][Next]_vars

-----------------------------------------------------------------------------
(* Constructing a DataReader *)

InitReader ==
    /\ dataReader = [tupleLen |-> 3, biasArity |-> 1, hasAccessors |-> FALSE]
    /\ range_min = 0
    /\ range_max = Unit
    /\ range_interval = 1
    /\ cpu_count = 1
    /\ trial_count = 1
    /\ AnalyzerIdle
    /\ rdArgs \in ReaderArgs
    /\ rd = [status |-> "unconstructed", message |-> ""]
    /\ EvalIdle
    /\ LabelIdle

Construct ==
    /\ rd.status = "unconstructed"
    /\ rd' = DataReaderInit(rdArgs)
    /\ UNCHANGED <<rdArgs, analyzerVars, evalVars, labelVars>>

NextReader == Construct

SpecReader == InitReader /\ [][NextReader]_vars

-----------------------------------------------------------------------------
(* One call of the point evaluator, as a worker makes it *)

InitEvaluator ==
    /\ dataReader = [tupleLen |-> 3, biasArity |-> 1, hasAccessors |-> FALSE]
    /\ range_min = 0
    /\ range_max = Unit
    /\ range_interval = 1
    /\ cpu_count = 1
    /\ trial_count = 1
    /\ AnalyzerIdle
    /\ rdArgs = AdultArgs
    /\ rd = DataReaderInit(AdultArgs)
    /\ evArgs \in [flip_rate : 0..(MaxRate + 1),
                    confidence_threshold : {ConfidenceThreshold},
                    dataReader : ReaderShapes,
                    outcomes : [0..(MaxAttempts - 1) -> Outcomes]]
    /\ evRet = NoReturn
    /\ LabelIdle

RunEvaluator ==
    /\ evRet.status = "none"
    /\ evRet' = Evaluate(evArgs.flip_rate, evArgs.confidence_threshold,
                         evArgs.dataReader, evArgs.outcomes)
    /\ UNCHANGED <<evArgs, analyzerVars, readerVars, labelVars>>

NextEvaluator == RunEvaluator

SpecEvaluator == InitEvaluator /\ [][NextEvaluator]_vars

-----------------------------------------------------------------------------
(* training_data() and training_data_label_bias(flip_rate) on one training file *)

\* the values of a label column as read from the file, in their sort order
RawLabels == {"<=50K", ">50K"}

\* their order, as LabelEncoder sorts them
RawOrder(v) == IF v = "<=50K" THEN 0 ELSE 1

LabelColumns == UNION {[1..n -> {RawOrder(v) : v \in RawLabels}] : n \in 1..MaxRows}

InitLabels ==
    /\ dataReader = [tupleLen |-> 3, biasArity |-> 1, hasAccessors |-> FALSE]
    /\ range_min = 0
    /\ range_max = Unit
    /\ range_interval = 1
    /\ cpu_count = 1
    /\ trial_count = 1
    /\ AnalyzerIdle
    /\ rdArgs = AdultArgs
    /\ rd = DataReaderInit(AdultArgs)
    /\ EvalIdle
    /\ lbArgs \in [labels : LabelColumns, flip_rate : 0..(MaxRate + 1)]
    /\ lbOut = [training |-> NotCalled, biased |-> NotCalled]

CallTrainingData ==
    /\ lbOut.training.status = "none"
    /\ lbOut' = [lbOut EXCEPT !.training = TrainingData(lbArgs.labels)]
    /\ UNCHANGED <<lbArgs, analyzerVars, readerVars, evalVars>>

CallTrainingDataLabelBias ==
    /\ lbOut.biased.status = "none"
    /\ lbOut' = [lbOut EXCEPT !.biased =
                     TrainingDataLabelBias(lbArgs.labels, lbArgs.flip_rate)]
    /\ UNCHANGED <<lbArgs, analyzerVars, readerVars, evalVars>>

NextLabels ==
    \/ CallTrainingData
    \/ CallTrainingDataLabelBias

SpecLabels == InitLabels /\ [][NextLabels]_vars

-----------------------------------------------------------------------------
(* Properties *)

GridOfRun == Grid(range_min, range_max, range_interval)

GridSize == Len(GridOfRun)

RowKey(row) == <<row.Trial, row.FlipRate, row.ConfidenceThreshold>>

Returned(i) == return_values[i].status # "none"

\* an attempt raises when the provider call raises or a black box does
AttemptRaises(flip_rate, dr, outcome) ==
    FetchTrain(flip_rate, dr).raised \/ outcome # "ok"

\* C1: once analyze_label_bias has built the sweep result, it has
\* trial_count * (grid size) rows and no two rows share the key
\* (trial, flip_rate, confidence_threshold), whatever the attempts did.
C1_SweepRowCountAndKeys ==
    pc \in {"write", "done"} =>
        /\ Len(results) = trial_count * GridSize
        /\ \A i, j \in 1..Len(results) :
              i # j => RowKey(results[i]) # RowKey(results[j])

\* C2: in a trial result, row i is the row of the i-th dispatched point,
\* whatever the order in which the workers finished.
C2_RowOrderIsDispatchOrder ==
    pc = "collected" =>
        \A i \in 1..Len(trial_result) :
            /\ trial_result[i].FlipRate = variable_args[i][1]
            /\ trial_result[i].ConfidenceThreshold = variable_args[i][2]

\* C3: for every k < 5, an evaluator whose first k attempts raise and whose
\* attempt k+1 succeeds returns the row stored by attempt k+1 and the failure
\* count k.
C3_RetryReturnsFailureCount ==
    evRet.status # "none" =>
        \A k \in 0..(MaxAttempts - 1) :
            ( /\ \A a \in 0..(k - 1) :
                     AttemptRaises(evArgs.flip_rate, evArgs.dataReader,
                                   evArgs.outcomes[a])
              /\ ~AttemptRaises(evArgs.flip_rate, evArgs.dataReader,
                                evArgs.outcomes[k]) )
            =>
            /\ evRet.status = "returned"
            /\ evRet.df = <<[FlipRate |-> evArgs.flip_rate,
                             ConfidenceThreshold |-> evArgs.confidence_threshold,
                             Metrics |-> "m"]>>
            /\ evRet.rowBy = k + 1
            /\ evRet.failures = k

\* C3 witness: the first attempt raised before the frame was created, the
\* second after, the third succeeded, and the evaluator has returned
C3_Witness ==
    /\ evRet.status = "returned"
    /\ evArgs.flip_rate = 1
    /\ evArgs.dataReader.biasArity = 3
    /\ evArgs.dataReader.tupleLen = 2
    /\ evArgs.outcomes[0] = "early"
    /\ evArgs.outcomes[1] = "late"
    /\ evArgs.outcomes[2] = "ok"
    /\ evRet.failures = 2

\* C4: an evaluator never reads a result that no attempt assigned, and never
\* returns a result that was not stored by a successful attempt.
C4_ExhaustedIsDefined ==
    \A i \in 1..Len(return_values) :
        /\ return_values[i].status # "raised"
        /\ return_values[i].status = "returned" => return_values[i].succeeded

\* C5: the grid of a trial has floor((max - min) / step) + 1 points, holds a
\* point at range_min and a point at range_max, and pairs every flip rate with
\* the confidence threshold 1.
C5_GridSizeAndEndpoints ==
    pc \in {"dispatch", "wait", "collected"} =>
        /\ Len(variable_args) = ((range_max - range_min) \div range_interval) + 1
        /\ \E i \in 1..Len(variable_args) : variable_args[i][1] = range_min
        /\ \E i \in 1..Len(variable_args) : variable_args[i][1] = range_max
        /\ \A i \in 1..Len(variable_args) : variable_args[i][2] = 1

\* C6: an evaluator run at flip rate 0 has, over all its attempts, made no
\* bias-injection call and fitted no classifier, and has used the baseline
\* table and the reference model.
C6_ZeroFlipRateReusesBaseline ==
    \A i \in 1..Len(return_values) :
        (Returned(i) /\ variable_args[i][1] = 0) =>
            /\ return_values[i].biasCalls = 0
            /\ return_values[i].fits = 0
            /\ return_values[i].table = "initial"
            /\ return_values[i].estimator = "initial"

\* C6 witness: the flip rate 0 point was evaluated and needed more than one attempt
C6_Witness ==
    \E i \in 1..Len(return_values) :
        /\ Returned(i)
        /\ variable_args[i][1] = 0
        /\ return_values[i].attempts >= 2

GridOutOfRange ==
    \E i \in 1..GridSize : GridOfRun[i][1] > Unit \/ GridOfRun[i][1] < 0

\* C7: in a sweep whose grid holds a flip rate outside [0,1] no work starts:
\* no baseline is fitted, no pool is opened, no point is dispatched and no
\* attempt is made.
C7_OutOfRangeFailsFast ==
    GridOutOfRange =>
        /\ initial_estimator = 0
        /\ pool = 0
        /\ tasks = <<>>
        /\ \A i \in 1..Len(return_values) : return_values[i].attempts = 0

\* C8: a trial result holds a row for every point of the grid: it never has
\* fewer rows than the grid.
C8_NoPointVanishes ==
    pc = "collected" =>
        /\ Len(trial_result) >= Len(variable_args)
        /\ \A i \in 1..Len(variable_args) :
              \E j \in 1..Len(trial_result) :
                  /\ trial_result[j].FlipRate = variable_args[i][1]
                  /\ trial_result[j].ConfidenceThreshold = variable_args[i][2]

\* the provider of the stated interface: triples, and a three-argument
\* training_data_label_bias
HonoursInterface == dataReader.tupleLen = 3 /\ dataReader.biasArity = 3

\* C9: with a provider of the stated interface the trial does not end in an
\* interface error.
C9_StatedInterfaceWorks ==
    HonoursInterface =>
        error \notin {"ValueError: too many values to unpack", "AttributeError"}

\* C10: a DataReader construction raises ValueError exactly when the training
\* path or the test path is no file, or a label column name or a sensitive
\* attribute column name is no key of types; otherwise it succeeds.
C10_ConstructorRaisesIff ==
    rd.status # "unconstructed" =>
        LET bad ==
              \/ ~rdArgs.training_is_file
              \/ ~rdArgs.test_is_file
              \/ \E n \in 1..Len(rdArgs.label_column_names) :
                    rdArgs.label_column_names[n] \notin rdArgs.types
              \/ \E n \in 1..Len(rdArgs.sensitive_attribute_column_names) :
                    rdArgs.sensitive_attribute_column_names[n] \notin rdArgs.types
        IN  /\ bad => rd.status = "ValueError"
            /\ ~bad => rd.status = "constructed"

\* labels of the biased table that differ from the labels of training_data()
Differing ==
    {i \in 1..Len(lbOut.training.labels) :
        lbOut.biased.labels[i] # lbOut.training.labels[i]}

\* C11: for a flip rate in [0,1] training_data_label_bias returns the labels of
\* training_data() with the share flip_rate of them flipped (none at rate 0,
\* all at rate 1, to within one label between), and for a flip rate outside
\* [0,1] it raises ValueError.
C11_LabelsFlippedAtRate ==
    (lbOut.training.status # "none" /\ lbOut.biased.status # "none") =>
        IF lbArgs.flip_rate >= 0 /\ lbArgs.flip_rate <= Unit
        THEN /\ lbOut.biased.status = "returned"
             /\ Len(lbOut.biased.labels) = Len(lbOut.training.labels)
             /\ Unit * Cardinality(Differing)
                    > lbArgs.flip_rate * Len(lbOut.training.labels) - Unit
             /\ Unit * Cardinality(Differing)
                    < lbArgs.flip_rate * Len(lbOut.training.labels) + Unit
        ELSE lbOut.biased.status = "ValueError"

\* C10 witness: both files exist, the labels are columns, a sensitive
\* attribute name is not, and the construction raised
C10_Witness ==
    /\ rd.status = "ValueError"
    /\ rdArgs.training_is_file
    /\ rdArgs.test_is_file
    /\ \A n \in 1..Len(rdArgs.label_column_names) :
          rdArgs.label_column_names[n] \in rdArgs.types
    /\ \E n \in 1..Len(rdArgs.sensitive_attribute_column_names) :
          rdArgs.sensitive_attribute_column_names[n] \notin rdArgs.types

\* C12: the reference model is fitted exactly once in every trial, on that
\* trial's own data, and the fit is complete before the trial's pool is opened
\* and before any of its points is dispatched.
C12_BaselineFittedOncePerTrialBeforePool ==
    /\ pool <= baseline_fits
    /\ baseline_fits <= pool + 1
    /\ baseline_fits <= trial_num
    /\ pc \in {"pool", "dispatch", "wait", "collected"} =>
          baseline_fits = trial_num /\ initial_estimator = trial_num
    /\ tasks # <<>> =>
          /\ initial_estimator = trial_num
          /\ baseline_fits = trial_num
          /\ pool = trial_num
    /\ pc \in {"concat", "write", "done"} => baseline_fits = trial_count

\* C12 witness: a worker is evaluating a point of the second trial, whose own
\* reference model was the second one fitted
C12_Witness ==
    /\ trial_num = 2
    /\ pc = "wait"
    /\ \E i \in 1..Len(tasks) : tasks[i] = "running"
    /\ baseline_fits = 2
    /\ initial_estimator = 2

\* C13: trials run one at a time in increasing index order: whatever step trial
\* t is at, exactly the trials 1..t-1 have returned their results, in that
\* order, and the sweep result holds the rows of the trials in index order.
C13_TrialsSequentialInIndexOrder ==
    /\ pc \in {"fetch", "fit", "pool", "dispatch", "wait", "collected", "failed"} =>
          Len(frames) = trial_num - 1
    /\ tables # 0 => Len(frames) = tables - 1
    /\ initial_estimator # 0 => Len(frames) = initial_estimator - 1
    /\ pool <= Len(frames) + 1
    /\ \A k \in 1..Len(frames) :
          \A j \in 1..Len(frames[k]) : frames[k][j].Trial = k
    /\ pc \in {"write", "done"} =>
          /\ Len(frames) = trial_count
          /\ \A i, j \in 1..Len(results) :
                i < j => results[i].Trial <= results[j].Trial

\* C13 witness: a sweep of two trials is written, first the rows of trial 1,
\* last those of trial 2
C13_Witness ==
    /\ pc = "done"
    /\ trial_count = 2
    /\ Len(results) >= 2
    /\ results[1].Trial = 1
    /\ results[Len(results)].Trial = 2

\* C14: the trial result is built, or a worker's error raised, only when every
\* dispatched point has returned; while a point has not returned the
\* coordinator cannot go on.
C14_BarrierBeforeTrialResult ==
    /\ ( \/ pc = "collected"
         \/ trial_result # <<>>
         \/ failures_sum # -1
         \/ (pc = "failed" /\ error = "UnboundLocalError") )
        => \A i \in 1..Len(tasks) :
              tasks[i] = "done" /\ return_values[i].status # "none"
    /\ (pc = "wait" /\ \E i \in 1..Len(tasks) : tasks[i] # "done")
        => ~ENABLED Collect

\* C14 witness: a trial of at least two points was collected
C14_Witness ==
    /\ pc = "collected"
    /\ Len(tasks) >= 2
    /\ Len(trial_result) >= 2

RECURSIVE FailuresOfPoints(_)
FailuresOfPoints(n) ==
    IF n = 0 THEN 0 ELSE return_values[n].failures + FailuresOfPoints(n - 1)

\* C15: every row of the trial result of trial n carries Trial = n, and the
\* failure count printed for the trial is the sum of the failure counts the
\* evaluators of its points returned.
C15_TrialStampAndFailureSum ==
    pc = "collected" =>
        /\ \A j \in 1..Len(trial_result) : trial_result[j].Trial = trial_num
        /\ failures_sum = FailuresOfPoints(Len(return_values))

\* C15 witness: the second trial was collected with two rows and five failures
C15_Witness ==
    /\ pc = "collected"
    /\ trial_num = 2
    /\ Len(trial_result) = 2
    /\ failures_sum = 5

\* the attempts of the evaluation in evArgs that do not raise
SucceedingAttempts ==
    {k \in 0..(MaxAttempts - 1) :
        ~AttemptRaises(evArgs.flip_rate, evArgs.dataReader, evArgs.outcomes[k])}

\* C16: an evaluator makes at most 5 attempts and none after the first
\* successful one: when some attempt among the 5 would succeed, the number of
\* attempts made is the number of failed ones before it plus one; otherwise it
\* is exactly 5, whatever raises in an attempt.
C16_AtMostFiveAttemptsStopAtSuccess ==
    evRet.status # "none" =>
        /\ evRet.attempts \in 1..MaxAttempts
        /\ IF SucceedingAttempts # {}
           THEN \E k \in SucceedingAttempts :
                    /\ \A a \in SucceedingAttempts : k <= a
                    /\ evRet.attempts = k + 1
                    /\ evRet.succeeded
           ELSE evRet.attempts = MaxAttempts /\ ~evRet.succeeded

\* C16 witness: the provider call and the black boxes would succeed from the
\* third attempt on, after one failure of each kind, and three attempts were made
C16_Witness ==
    /\ evRet.status = "returned"
    /\ evArgs.flip_rate = 2
    /\ evArgs.dataReader.biasArity = 3
    /\ evArgs.dataReader.tupleLen = 2
    /\ evArgs.outcomes[0] = "late"
    /\ evArgs.outcomes[1] = "early"
    /\ \A k \in 2..(MaxAttempts - 1) : evArgs.outcomes[k] = "ok"
    /\ evRet.attempts = 3

\* C17: the evaluator prints one progress marker for each attempt it made, and
\* the marker of an attempt is '#' exactly when that attempt succeeded.
C17_OneMarkerPerAttempt ==
    evRet.status # "none" =>
        /\ Len(evRet.printed) = evRet.attempts
        /\ \A m \in 1..Len(evRet.printed) :
              evRet.printed[m] = IF (m - 1) \in SucceedingAttempts THEN "#" ELSE "X"

C19_FailureCountsBounded ==
    /\ \A i \in 1..Len(return_values) :
          return_values[i].status # "none" =>
              /\ return_values[i].failures \in 0..(MaxAttempts - 1)
              /\ return_values[i].attempts = MaxAttempts =>
                    return_values[i].failures = MaxAttempts - 1
    /\ pc = "collected" =>
          failures_sum \in 0..((MaxAttempts - 1) * Len(variable_args))

\* C19 witness: a collected trial with a point whose fifth attempt succeeded
\* and a point whose five attempts all failed, each counted with 4 failures
C19_Witness ==
    /\ pc = "collected"
    /\ failures_sum >= 2 * (MaxAttempts - 1)
    /\ \E i, j \in 1..Len(return_values) :
          /\ return_values[i].attempts = MaxAttempts
          /\ return_values[i].succeeded
          /\ return_values[i].failures = MaxAttempts - 1
          /\ return_values[j].attempts = MaxAttempts
          /\ ~return_values[j].succeeded
          /\ return_values[j].failures = MaxAttempts - 1

\* C20: the table is written only after the last trial has returned, a failed
\* run has written nothing, and a written table that holds rows of some trial
\* holds rows of every trial of the run.
C20_PersistedOnceCompleteOnly ==
    /\ csv.written => (pc = "done" /\ Len(frames) = trial_count)
    /\ pc = "failed" => ~csv.written
    /\ (csv.written /\ csv.rows # <<>>) =>
          \A t \in 1..trial_count :
              \E j \in 1..Len(csv.rows) : csv.rows[j].Trial = t

====
